---- MODULE Spec2Model ----
(***************************************************************************)
(* Model of the Ethereum transaction signing workflow of the BitBox02      *)
(* firmware: src/rust/bitbox02-rust/src/hww/api/ethereum/sign.rs.          *)
(*                                                                         *)
(* Byte strings are sequences over 0..255.  A BigUint is its big-endian    *)
(* byte string without leading zero bytes (the empty sequence is zero).    *)
(* A u32 keypath element is the pair <<h, i>> of its top bit h (1 when     *)
(* hardened) and its low 31 bits i.  An Option is a sequence of length 0   *)
(* (None) or 1 (Some).                                                     *)
(***************************************************************************)
EXTENDS Integers, Sequences, FiniteSets, TLC

VARIABLES
    request,    \* the pb::EthSignRequest being processed
    pc,         \* position of process(): the next step, or the await it is suspended at
    params,     \* Option<Params> resolved by params_get
    erc20,      \* Option<(erc20_recipient, erc20_value)> returned by parse_erc20
    hash,       \* Option<sighash>
    host_nonce, \* Option<host nonce> handed to secp256k1_sign
    log,        \* calls made to the collaborators so far, in order
    result,     \* outcome of process(), tag "none" while it is running
    pe_request, \* input of the stand-alone parse_erc20 evaluation
    pe_result,  \* its output: <<"todo">>, <<"None">> or <<"Some", recipient, value>>
    am_request, \* input of the stand-alone evaluation of the fee and the total
    am_result   \* its output: <<"todo">> or <<"done", fee value, total value>>

vars ==
    <<request, pc, params, erc20, hash, host_nonce, log, result,
      pe_request, pe_result, am_request, am_result>>

----------------------------------------------------------------------------
(* Byte string helpers *)

Repeat(b, n) == [i \in 1..n |-> b]

Zeros(n) == Repeat(0, n)

Slice(s, from, to) == SubSeq(s, from + 1, to)

None == <<>>

Some(x) == <<x>>

\* F applied to the value of e: e is evaluated once, before F uses it.
Strict(F(_), e) == CHOOSE r \in {F(x) : x \in {e}} : TRUE

Strict2(F(_, _), e1, e2) == CHOOSE r \in {F(x, y) : x \in {e1}, y \in {e2}} : TRUE

\* `if let [0, ..] = &bytes[..]`
HasZeroPrefix(bytes) == Len(bytes) > 0 /\ bytes[1] = 0

RECURSIVE StripLeadingZeros(_)
StripLeadingZeros(bytes) ==
    IF bytes = <<>> THEN <<>>
    ELSE IF bytes[1] = 0 THEN StripLeadingZeros(Tail(bytes))
    ELSE bytes

\* BigUint::from_bytes_be
from_bytes_be(bytes) == StripLeadingZeros(bytes)

Reverse(s) == [i \in 1..Len(s) |-> s[Len(s) + 1 - i]]

RestOf(s) == IF s = <<>> THEN <<>> ELSE Tail(s)

DigitOf(s) == IF s = <<>> THEN 0 ELSE s[1]

\* Little-endian base-256 addition with carry.
RECURSIVE AddLE(_, _, _)
AddLE(a, b, carry) ==
    IF a = <<>> /\ b = <<>>
    THEN IF carry = 0 THEN <<>> ELSE <<carry>>
    ELSE LET sum == DigitOf(a) + DigitOf(b) + carry
         IN  <<sum % 256>> \o AddLE(RestOf(a), RestOf(b), sum \div 256)

\* Little-endian base-256 multiplication by one digit, with carry.
RECURSIVE MulDigitLE(_, _, _)
MulDigitLE(a, d, carry) ==
    IF a = <<>>
    THEN IF carry = 0 THEN <<>> ELSE <<carry>>
    ELSE LET prod == a[1] * d + carry
         IN  <<prod % 256>> \o MulDigitLE(Tail(a), d, prod \div 256)

RECURSIVE MulLE(_, _)
MulLE(a, b) ==
    IF b = <<>> THEN <<>>
    ELSE AddLE(MulDigitLE(a, b[1], 0), <<0>> \o MulLE(a, Tail(b)), 0)

\* BigUint add: `amount.value.add(&fee.value)`
BigAdd(a, b) ==
    LET Add(x, y) == Strict(from_bytes_be, Reverse(AddLE(Reverse(x), Reverse(y), 0)))
    IN  Strict2(Add, a, b)

\* BigUint mul: `gas_price.mul(gas_limit)`
BigMul(a, b) ==
    LET Mul(x, y) == Strict(from_bytes_be, Reverse(MulLE(Reverse(x), Reverse(y))))
    IN  Strict2(Mul, a, b)

----------------------------------------------------------------------------
(* Collaborators outside sign.rs: parameter tables and keypath checks *)

\* 1 ETH = 1e18 wei.
WEI_DECIMALS == 18

\* util::bip32::HARDENED is the top bit of a u32 keypath element.
Hard(i) == <<1, i>>

Soft(i) == <<0, i>>

\* pb::EthCoin::Eth
COIN_ETH == 0

\* pb::EthCoin::RopstenEth
COIN_ROPSTEN == 1

\* bitbox02::app_eth::params_get: the per-coin parameter table.
params_get(coin) ==
    IF coin = COIN_ETH
    THEN Some([bip44_coin |-> Hard(60), chain_id |-> 1, name |-> "Ethereum", unit |-> "ETH"])
    ELSE IF coin = COIN_ROPSTEN
    THEN Some([bip44_coin |-> Hard(1), chain_id |-> 3, name |-> "Ropsten", unit |-> "TETH"])
    ELSE None

\* Highest address index accepted in an address keypath.
ACCOUNT_MAX == 99

\* super::keypath::is_valid_keypath_address: m/44'/60'/0'/0/i or m/44'/1'/0'/0/i, i <= 99.
is_valid_keypath_address(keypath) ==
    /\ Len(keypath) = 5
    /\ keypath[1] = Hard(44)
    /\ keypath[2] \in {Hard(60), Hard(1)}
    /\ keypath[3] = Hard(0)
    /\ keypath[4] = Soft(0)
    /\ keypath[5][1] = 0
    /\ keypath[5][2] <= ACCOUNT_MAX

\* super::keypath::warn_unusual_keypath warns when the coin part of the keypath
\* is not the coin's own.
is_unusual_keypath(ps, keypath) ==
    Len(keypath) < 2 \/ keypath[2] # ps.bip44_coin

USDT_CONTRACT ==
    <<218, 193, 127, 149, 141, 46, 229, 35, 162, 32, 98, 6, 153, 69, 151, 193, 61, 131, 30, 199>>

\* bitbox02::app_eth::erc20_params_get: the table of supported ERC20 tokens.
erc20_params_get(coin, contract_address) ==
    IF coin = COIN_ETH /\ contract_address = USDT_CONTRACT
    THEN Some([unit |-> "USDT", decimals |-> 6])
    ELSE None

\* Byte width of the host nonce commitment taken by keystore::secp256k1_nonce_commit.
COMMITMENT_LEN == 32

\* The error a rejected confirmation converts to under `?`.
UserAbortError == "UserAbort"

\* The error a failed keystore call converts to under `?`.
KeystoreError == "Generic"

\* The errors antiklepto_get_host_nonce can return.  Its fault is not specified
\* and `?` at line 254 returns it as it is, so it is any error of the taxonomy;
\* ProtocolFault is the one of a malformed fixed width field from the host.
HostErrors == {"InvalidInput", "UserAbort", "ProtocolFault", "Generic"}

----------------------------------------------------------------------------
(* sign.rs *)

\* parse_recipient accepting short recipients.
parse_recipient_at_most_20(recipient) ==
    IF Len(recipient) <= 20 THEN Some(recipient) ELSE None

\* fn parse_recipient: Ok(<<recipient>>) or Err(InvalidInput), here None.
parse_recipient(recipient) ==
    IF Len(recipient) = 20 THEN Some(recipient) ELSE None

ERC20_METHOD == <<169, 5, 156, 187>>

\* parse_erc20 checking one byte too few of the recipient padding.
parse_erc20_short_padding(req) ==
    IF req.value # <<>> \/ Len(req.data) # 68
    THEN None
    ELSE LET method == Slice(req.data, 0, 4)
             recipient == Slice(req.data, 4, 36)
             value == Slice(req.data, 36, 68)
         IN  IF method # <<169, 5, 156, 187>> THEN None
             ELSE IF Slice(recipient, 0, 11) # Zeros(11) THEN None
             ELSE IF value = Zeros(32) THEN None
             ELSE Some(<<Slice(recipient, 12, 32), from_bytes_be(value)>>)

\* fn parse_erc20
parse_erc20(req) ==
    IF req.value # <<>> \/ Len(req.data) # 68
    THEN None
    ELSE LET method == Slice(req.data, 0, 4)
             recipient == Slice(req.data, 4, 36)
             value == Slice(req.data, 36, 68)
         IN  IF method # ERC20_METHOD THEN None
             ELSE IF Slice(recipient, 0, 12) # Zeros(12) THEN None
             ELSE IF value = Zeros(32) THEN None
             ELSE Some(<<Slice(recipient, 12, 32), from_bytes_be(value)>>)

\* The low n bytes of a BigUint: its value modulo 256^n.
LowBytes(value, n) ==
    from_bytes_be(IF Len(value) > n THEN SubSeq(value, Len(value) - n + 1, Len(value)) ELSE value)

\* parse_fee with the product computed in a u128.
parse_fee_u128(req, ps) ==
    LET gas_price == from_bytes_be(req.gas_price)
        gas_limit == from_bytes_be(req.gas_limit)
    IN  [unit |-> ps.unit, decimals |-> WEI_DECIMALS,
         value |-> LowBytes(BigMul(gas_price, gas_limit), 16)]

\* fn parse_fee
parse_fee(req, ps) ==
    LET gas_price == from_bytes_be(req.gas_price)
        gas_limit == from_bytes_be(req.gas_limit)
    IN  [unit |-> ps.unit, decimals |-> WEI_DECIMALS, value |-> BigMul(gas_price, gas_limit)]

\* Long division of a big-endian byte string by 10: <<quotient bytes, remainder>>.
RECURSIVE DivMod10(_, _, _)
DivMod10(bytes, quot, rem) ==
    IF bytes = <<>> THEN <<quot, rem>>
    ELSE LET cur == rem * 256 + bytes[1]
         IN  DivMod10(Tail(bytes), Append(quot, cur \div 10), cur % 10)

\* Decimal digits of a BigUint, most significant first; empty for zero.
RECURSIVE ToDecimal(_)
ToDecimal(value) ==
    IF value = <<>> THEN <<>>
    ELSE LET dm == DivMod10(value, <<>>, 0)
         IN  Append(ToDecimal(from_bytes_be(dm[1])), dm[2])

RECURSIVE StripTrailingZeros(_)
StripTrailingZeros(digits) ==
    IF digits = <<>> THEN <<>>
    ELSE IF digits[Len(digits)] = 0 THEN StripTrailingZeros(SubSeq(digits, 1, Len(digits) - 1))
    ELSE digits

DigitChar(d) == <<"0", "1", "2", "3", "4", "5", "6", "7", "8", "9">>[d + 1]

DigitChars(digits) == [i \in 1..Len(digits) |-> DigitChar(digits[i])]

\* A displayed text is a sequence of string pieces, read concatenated.
Text(literal) == <<literal>>

\* Amount::format: "<integer>[.<fraction>] <unit>", the fraction without trailing zeros.
format_amount(amount) ==
    LET Pad(digits) == IF Len(digits) > amount.decimals THEN digits
                       ELSE Zeros(amount.decimals + 1 - Len(digits)) \o digits
        IntPart(padded) == SubSeq(padded, 1, Len(padded) - amount.decimals)
        FracPart(padded) ==
            StripTrailingZeros(SubSeq(padded, Len(padded) - amount.decimals + 1, Len(padded)))
        Point(frac) == IF frac = <<>> THEN <<>> ELSE <<".">> \o DigitChars(frac)
        Write(padded) ==
            Strict(DigitChars, IntPart(padded)) \o Strict(Point, FracPart(padded)) \o <<" ", amount.unit>>
        WritePadded(digits) == Strict(Write, Pad(digits))
    IN  Strict(WritePadded, ToDecimal(amount.value))

format(amount) == Strict(format_amount, amount)

\* hex::encode: two hexadecimal digits (0..15) per byte.
hex_encode(bytes) ==
    [i \in 1..(2 * Len(bytes)) |->
        IF i % 2 = 1 THEN bytes[(i + 1) \div 2] \div 16 ELSE bytes[i \div 2] % 16]

\* super::address::from_pubkey_hash: the address text of a 20 byte recipient.
from_pubkey_hash(recipient) == <<"0x", hex_encode(recipient)>>

\* erc20_texts showing the address of the contract instead of the recipient.
erc20_texts_contract_address(req, ps, erc20_recipient, erc20_value) ==
    LET erc20_params == erc20_params_get(req.coin, parse_recipient(req.recipient)[1])
        formatted_fee == format(parse_fee(req, ps))
        recipient_address == from_pubkey_hash(parse_recipient(req.recipient)[1])
        value == format([unit |-> erc20_params[1].unit,
                         decimals |-> erc20_params[1].decimals,
                         value |-> erc20_value])
        formatted_value == IF erc20_params # None THEN value ELSE Text("Unknown token")
        formatted_total == IF erc20_params # None THEN value ELSE Text("Unknown amount")
    IN  [address |-> recipient_address, value |-> formatted_value,
         total |-> formatted_total, fee |-> formatted_fee]

\* erc20_texts with the fee added to the token value in the total.
erc20_texts_total_with_fee(req, ps, erc20_recipient, erc20_value) ==
    LET erc20_params == erc20_params_get(req.coin, parse_recipient(req.recipient)[1])
        formatted_fee == format(parse_fee(req, ps))
        recipient_address == from_pubkey_hash(erc20_recipient)
        value == format([unit |-> erc20_params[1].unit,
                         decimals |-> erc20_params[1].decimals,
                         value |-> erc20_value])
        total == format([unit |-> erc20_params[1].unit,
                         decimals |-> erc20_params[1].decimals,
                         value |-> BigAdd(erc20_value, parse_fee(req, ps).value)])
        formatted_value == IF erc20_params # None THEN value ELSE Text("Unknown token")
        formatted_total == IF erc20_params # None THEN total ELSE Text("Unknown amount")
    IN  [address |-> recipient_address, value |-> formatted_value,
         total |-> formatted_total, fee |-> formatted_fee]

\* The texts verify_erc20_transaction shows: lines 97-116.
erc20_texts(req, ps, erc20_recipient, erc20_value) ==
    LET erc20_params == erc20_params_get(req.coin, parse_recipient(req.recipient)[1])
        formatted_fee == format(parse_fee(req, ps))
        recipient_address == from_pubkey_hash(erc20_recipient)
        value == format([unit |-> erc20_params[1].unit,
                         decimals |-> erc20_params[1].decimals,
                         value |-> erc20_value])
        formatted_value == IF erc20_params # None THEN value ELSE Text("Unknown token")
        formatted_total == IF erc20_params # None THEN value ELSE Text("Unknown amount")
    IN  [address |-> recipient_address, value |-> formatted_value,
         total |-> formatted_total, fee |-> formatted_fee]

\* The amounts of verify_standard_transaction: lines 168-180.
standard_amounts(req, ps) ==
    LET amount == [unit |-> ps.unit, decimals |-> WEI_DECIMALS,
                   value |-> from_bytes_be(req.value)]
        fee == parse_fee(req, ps)
        total == [unit |-> ps.unit, decimals |-> WEI_DECIMALS,
                  value |-> BigAdd(amount.value, fee.value)]
    IN  [amount |-> amount, fee |-> fee, total |-> total]

\* The texts verify_standard_transaction shows: lines 167-181.
standard_texts(req, ps) ==
    LET address == from_pubkey_hash(parse_recipient(req.recipient)[1])
        amounts == standard_amounts(req, ps)
    IN  [address |-> address, value |-> format(amounts.amount),
         total |-> format(amounts.total), fee |-> format(amounts.fee)]

----------------------------------------------------------------------------
(* Requests *)

KEYPATH_ETH == <<Hard(44), Hard(60), Hard(0), Soft(0), Soft(0)>>

KEYPATH_TESTNET == <<Hard(44), Hard(1), Hard(0), Soft(0), Soft(0)>>

KEYPATH_WRONG_COIN == <<Hard(44), Hard(0), Hard(0), Soft(0), Soft(0)>>

KEYPATH_ACCOUNT_TOO_HIGH == <<Hard(44), Hard(60), Hard(0), Soft(0), Soft(100)>>

RECIPIENT ==
    <<4, 242, 100, 207, 52, 68, 3, 19, 180, 160, 25, 42, 53, 40, 20, 251, 233, 39, 184, 133>>

ERC20_RECIPIENT ==
    <<230, 206, 10, 9, 42, 153, 112, 12, 212, 204, 204, 187, 31, 237, 195, 156, 245, 62, 99, 48>>

\* An ERC20 transfer call: method, zero padded recipient, 32 byte value.
Erc20Data(method, padding, recipient, value) == method \o padding \o recipient \o value

ERC20_DATA == Erc20Data(ERC20_METHOD, Zeros(12), ERC20_RECIPIENT, Zeros(28) \o <<3, 101, 192, 64>>)

ERC20_DATA_ZERO_VALUE == Erc20Data(ERC20_METHOD, Zeros(12), ERC20_RECIPIENT, Zeros(32))

FOO_BAR == <<102, 111, 111, 32, 98, 97, 114>>

\* How far past a size limit the oversized fields of the requests go.
MaxExcess == 1

Coins == {COIN_ETH, COIN_ROPSTEN, 100}

Keypaths == {KEYPATH_ETH, KEYPATH_TESTNET, KEYPATH_WRONG_COIN, KEYPATH_ACCOUNT_TOO_HIGH}

Nonces == {<<31, 220>>, <<0, 1>>} \cup {Repeat(1, 16 + e) : e \in 1..MaxExcess}

GasPrices == {<<1, 101, 160, 188, 0>>, <<0>>} \cup {Repeat(1, 16 + e) : e \in 1..MaxExcess}

GasLimits == {<<82, 8>>, <<0, 82, 8>>} \cup {Repeat(1, 16 + e) : e \in 1..MaxExcess}

Values ==
    {<<>>, <<7, 92, 241, 37, 158, 156, 64, 0>>, <<0>>} \cup {Repeat(1, 32 + e) : e \in 1..MaxExcess}

Datas ==
    {<<>>, FOO_BAR, ERC20_DATA, ERC20_DATA_ZERO_VALUE} \cup {Repeat(1, 1024 + e) : e \in 1..MaxExcess}

Recipients == {RECIPIENT, USDT_CONTRACT, Zeros(20), Repeat(97, 21), Repeat(97, 19)}

HostNonceCommitments ==
    {None, Some(Repeat(171, COMMITMENT_LEN)),
     Some(Repeat(171, COMMITMENT_LEN - 1)), Some(Repeat(171, COMMITMENT_LEN + 1))}

Requests ==
    [coin : Coins, keypath : Keypaths, nonce : Nonces, gas_price : GasPrices,
     gas_limit : GasLimits, recipient : Recipients, value : Values, data : Datas,
     host_nonce_commitment : HostNonceCommitments]

\* What the collaborators can return.
HostNonces == {Repeat(205, 32), Repeat(17, 32)}

\* The commitment the host makes to a nonce (a hash of it, here a byte-wise shift);
\* Repeat(205, 32) is the nonce the commitment of the requests is made to.
host_commitment_of(nonce) == [i \in 1..Len(nonce) |-> (nonce[i] + 222) % 256]

SignerCommitments == {Repeat(2, 33), Repeat(3, 33)}

SignResults == {[signature |-> Repeat(17, 64), recid |-> 0], [signature |-> Repeat(34, 64), recid |-> 1]}

----------------------------------------------------------------------------
(* process() as a state machine *)

Call(fn, args) == [ev |-> "call", fn |-> fn, val |-> args]

Ret(fn, val) == [ev |-> "ret", fn |-> fn, val |-> val]

Running == [tag |-> "none", signature |-> <<>>, at |-> "none"]

\* process returns Err(error) from the step it is at
Fail(error) ==
    /\ result' = [tag |-> error, signature |-> <<>>, at |-> pc]
    /\ pc' = "done"

\* process moves on to step `next`
Goto(next) ==
    /\ pc' = next
    /\ result' = result

NoStandalone == UNCHANGED <<pe_request, pe_result, am_request, am_result>>

Init ==
    /\ request \in Requests
    /\ pc = "params_get"
    /\ params = None
    /\ erc20 = None
    /\ hash = None
    /\ host_nonce = None
    /\ log = <<>>
    /\ result = Running
    /\ pe_request = [value |-> <<>>, data |-> <<>>]
    /\ pe_result = <<"todo">>
    /\ am_request = [coin |-> COIN_ETH, gas_price |-> <<>>, gas_limit |-> <<>>, value |-> <<>>]
    /\ am_result = <<"todo">>

\* line 187
ParamsGet ==
    /\ pc = "params_get"
    /\ params' = params_get(request.coin)
    /\ IF params_get(request.coin) = None THEN Fail("InvalidInput") ELSE Goto("keypath")
    /\ UNCHANGED <<request, erc20, hash, host_nonce, log>>
    /\ NoStandalone

\* CheckKeypath warning about the keypath before checking its shape.
CheckKeypathWarnFirst ==
    /\ pc = "keypath"
    /\ IF is_unusual_keypath(params[1], request.keypath)
       THEN /\ log' = Append(log, Call("warn_unusual_keypath", <<params[1].name, request.keypath>>))
            /\ Goto("await_warn_unusual_keypath")
       ELSE IF ~is_valid_keypath_address(request.keypath)
       THEN Fail("InvalidInput") /\ log' = log
       ELSE Goto("size_limits") /\ log' = log
    /\ UNCHANGED <<request, params, erc20, hash, host_nonce>>
    /\ NoStandalone

\* CheckKeypath without the unusual keypath warning.
CheckKeypathWithoutWarning ==
    /\ pc = "keypath"
    /\ IF ~is_valid_keypath_address(request.keypath)
       THEN Fail("InvalidInput")
       ELSE Goto("size_limits")
    /\ log' = log
    /\ UNCHANGED <<request, params, erc20, hash, host_nonce>>
    /\ NoStandalone

\* lines 189-192, up to the await of the warning
CheckKeypath ==
    /\ pc = "keypath"
    /\ IF ~is_valid_keypath_address(request.keypath)
       THEN Fail("InvalidInput") /\ log' = log
       ELSE IF is_unusual_keypath(params[1], request.keypath)
       THEN /\ log' = Append(log, Call("warn_unusual_keypath", <<params[1].name, request.keypath>>))
            /\ Goto("await_warn_unusual_keypath")
       ELSE Goto("size_limits") /\ log' = log
    /\ UNCHANGED <<request, params, erc20, hash, host_nonce>>
    /\ NoStandalone

\* SizeLimits without the limit on data.
SizeLimitsWithoutData ==
    /\ pc = "size_limits"
    /\ IF \/ Len(request.nonce) > 16
          \/ Len(request.gas_price) > 16
          \/ Len(request.gas_limit) > 16
          \/ Len(request.value) > 32
       THEN Fail("InvalidInput")
       ELSE Goto("zero_prefix")
    /\ UNCHANGED <<request, params, erc20, hash, host_nonce, log>>
    /\ NoStandalone

\* SizeLimits with the limit on value off by one.
SizeLimitsValueOffByOne ==
    /\ pc = "size_limits"
    /\ IF \/ Len(request.nonce) > 16
          \/ Len(request.gas_price) > 16
          \/ Len(request.gas_limit) > 16
          \/ Len(request.value) > 33
          \/ Len(request.data) > 1024
       THEN Fail("InvalidInput")
       ELSE Goto("zero_prefix")
    /\ UNCHANGED <<request, params, erc20, hash, host_nonce, log>>
    /\ NoStandalone

\* lines 195-202
SizeLimits ==
    /\ pc = "size_limits"
    /\ IF \/ Len(request.nonce) > 16
          \/ Len(request.gas_price) > 16
          \/ Len(request.gas_limit) > 16
          \/ Len(request.value) > 32
          \/ Len(request.data) > 1024
       THEN Fail("InvalidInput")
       ELSE Goto("zero_prefix")
    /\ UNCHANGED <<request, params, erc20, hash, host_nonce, log>>
    /\ NoStandalone

\* ZeroPrefix without the check of the gas limit.
ZeroPrefixWithoutGasLimit ==
    /\ pc = "zero_prefix"
    /\ IF HasZeroPrefix(request.nonce) THEN Fail("InvalidInput")
       ELSE IF HasZeroPrefix(request.gas_price) THEN Fail("InvalidInput")
       ELSE IF HasZeroPrefix(request.value) THEN Fail("InvalidInput")
       ELSE Goto("recipient")
    /\ UNCHANGED <<request, params, erc20, hash, host_nonce, log>>
    /\ NoStandalone

\* lines 205-216
ZeroPrefix ==
    /\ pc = "zero_prefix"
    /\ IF HasZeroPrefix(request.nonce) THEN Fail("InvalidInput")
       ELSE IF HasZeroPrefix(request.gas_price) THEN Fail("InvalidInput")
       ELSE IF HasZeroPrefix(request.gas_limit) THEN Fail("InvalidInput")
       ELSE IF HasZeroPrefix(request.value) THEN Fail("InvalidInput")
       ELSE Goto("recipient")
    /\ UNCHANGED <<request, params, erc20, hash, host_nonce, log>>
    /\ NoStandalone

\* CheckRecipient without the check for the zero address.
CheckRecipientWithoutZeroCheck ==
    /\ pc = "recipient"
    /\ IF parse_recipient(request.recipient) = None THEN Fail("InvalidInput")
       ELSE Goto("parse_erc20")
    /\ UNCHANGED <<request, params, erc20, hash, host_nonce, log>>
    /\ NoStandalone

\* lines 218-222
CheckRecipient ==
    /\ pc = "recipient"
    /\ IF parse_recipient(request.recipient) = None THEN Fail("InvalidInput")
       ELSE IF parse_recipient(request.recipient)[1] = Zeros(20) THEN Fail("InvalidInput")
       ELSE Goto("parse_erc20")
    /\ UNCHANGED <<request, params, erc20, hash, host_nonce, log>>
    /\ NoStandalone

\* Classify sending every request down the standard path.
ClassifyAlwaysStandard ==
    /\ pc = "parse_erc20"
    /\ erc20' = None
    /\ Goto("verify_standard_transaction")
    /\ UNCHANGED <<request, params, hash, host_nonce, log>>
    /\ NoStandalone

\* line 224
Classify ==
    /\ pc = "parse_erc20"
    /\ erc20' = parse_erc20(request)
    /\ IF parse_erc20(request) # None
       THEN Goto("verify_erc20_transaction")
       ELSE Goto("verify_standard_transaction")
    /\ UNCHANGED <<request, params, hash, host_nonce, log>>
    /\ NoStandalone

\* The texts of the two transaction confirmations, by the branch taken at line 224.
Texts ==
    IF erc20 # None
    THEN erc20_texts(request, params[1], erc20[1][1], erc20[1][2])
    ELSE standard_texts(request, params[1])

CallVerifyRecipient == Call("verify_recipient", <<Texts.address, Texts.value>>)

CallVerifyTotalFee == Call("verify_total_fee", <<Texts.total, Texts.fee>>)

\* Answer without the `?`: a rejection is not propagated.
AnswerIgnoringReject(fn, accept, calls, next) ==
    /\ pc = "await_" \o fn
    /\ log' = Append(log, Ret(fn, accept)) \o calls
    /\ Goto(next)
    /\ UNCHANGED <<request, params, erc20, hash, host_nonce>>
    /\ NoStandalone

\* Answer giving up on its own instead of waiting for the user's answer.
AnswerOrTimeout(fn, accept, calls, next) ==
    /\ pc = "await_" \o fn
    /\ IF accept
       THEN /\ log' = Append(log, Ret(fn, TRUE)) \o calls
            /\ Goto(next)
       ELSE /\ log' = log
            /\ Fail(UserAbortError)
    /\ UNCHANGED <<request, params, erc20, hash, host_nonce>>
    /\ NoStandalone

\* A pending confirmation `fn` is answered; on accept process runs on to `next`,
\* making the calls `calls` on its way.
Answer(fn, accept, calls, next) ==
    /\ pc = "await_" \o fn
    /\ IF accept
       THEN /\ log' = Append(log, Ret(fn, TRUE)) \o calls
            /\ Goto(next)
       ELSE /\ log' = Append(log, Ret(fn, FALSE))
            /\ Fail(UserAbortError)
    /\ UNCHANGED <<request, params, erc20, hash, host_nonce>>
    /\ NoStandalone

\* line 192: the answer to the unusual keypath warning
AnswerWarnUnusualKeypath ==
    \E accept \in BOOLEAN : Answer("warn_unusual_keypath", accept, <<>>, "size_limits")

\* VerifyErc20Begin refusing a token that is not in the table.
VerifyErc20BeginRejectingUnknown ==
    /\ pc = "verify_erc20_transaction"
    /\ IF \/ parse_recipient(request.recipient) = None
          \/ erc20_params_get(request.coin, request.recipient) = None
       THEN Fail("InvalidInput") /\ log' = log
       ELSE /\ log' = Append(log, CallVerifyRecipient)
            /\ Goto("await_verify_recipient")
    /\ UNCHANGED <<request, params, erc20, hash, host_nonce>>
    /\ NoStandalone

\* verify_erc20_transaction, lines 97-117, up to the await of verify_recipient
VerifyErc20Begin ==
    /\ pc = "verify_erc20_transaction"
    /\ IF parse_recipient(request.recipient) = None
       THEN Fail("InvalidInput") /\ log' = log
       ELSE /\ log' = Append(log, CallVerifyRecipient)
            /\ Goto("await_verify_recipient")
    /\ UNCHANGED <<request, params, erc20, hash, host_nonce>>
    /\ NoStandalone

\* VerifyStandardBegin without the check of line 133.
VerifyStandardBeginWithoutEmptyCheck ==
    /\ pc = "verify_standard_transaction"
    /\ IF parse_recipient(request.recipient) = None
       THEN Fail("InvalidInput") /\ log' = log
       ELSE IF request.data # <<>>
       THEN /\ log' = Append(log, Call("unknown_contract",
                        <<"Unknown\ncontract", "You will be shown\nthe raw\ntransaction data.">>))
            /\ Goto("await_unknown_contract")
       ELSE /\ log' = Append(log, CallVerifyRecipient)
            /\ Goto("await_verify_recipient")
    /\ UNCHANGED <<request, params, erc20, hash, host_nonce>>
    /\ NoStandalone

\* verify_standard_transaction, lines 133-147 (or 133-173 without data), up to the first await
VerifyStandardBegin ==
    /\ pc = "verify_standard_transaction"
    /\ IF request.data = <<>> /\ request.value = <<>>
       THEN Fail("InvalidInput") /\ log' = log
       ELSE IF parse_recipient(request.recipient) = None
       THEN Fail("InvalidInput") /\ log' = log
       ELSE IF request.data # <<>>
       THEN /\ log' = Append(log, Call("unknown_contract",
                        <<"Unknown\ncontract", "You will be shown\nthe raw\ntransaction data.">>))
            /\ Goto("await_unknown_contract")
       ELSE /\ log' = Append(log, CallVerifyRecipient)
            /\ Goto("await_verify_recipient")
    /\ UNCHANGED <<request, params, erc20, hash, host_nonce>>
    /\ NoStandalone

\* line 147 answered, lines 148-154
AnswerUnknownContract ==
    \E accept \in BOOLEAN :
        Answer("unknown_contract", accept,
               <<Call("understand",
                      <<"Unknown\ncontract", "Only proceed if you\nunderstand exactly\nwhat the data means.">>)>>,
               "await_understand")

\* AnswerUnderstand going on to the recipient without showing the data.
AnswerUnderstandSkippingData ==
    \E accept \in BOOLEAN :
        Answer("understand", accept, <<CallVerifyRecipient>>, "await_verify_recipient")

\* line 154 answered, lines 156-164
AnswerUnderstand ==
    \E accept \in BOOLEAN :
        Answer("understand", accept,
               <<Call("transaction_data",
                      <<"Transaction\ndata", hex_encode(request.data), Len(request.data)>>)>>,
               "await_transaction_data")

\* line 164 answered, lines 167-173
AnswerTransactionData ==
    \E accept \in BOOLEAN :
        Answer("transaction_data", accept, <<CallVerifyRecipient>>, "await_verify_recipient")

\* line 117 or 173 answered, lines 118 or 175-181
AnswerVerifyRecipient ==
    \E accept \in BOOLEAN :
        Answer("verify_recipient", accept, <<CallVerifyTotalFee>>, "await_verify_total_fee")

\* AnswerVerifyTotalFee with the result of verify_total_fee dropped.
AnswerVerifyTotalFeeUnchecked ==
    \E accept \in BOOLEAN :
        /\ pc = "await_verify_total_fee"
        /\ log' = Append(log, Ret("verify_total_fee", accept))
        /\ Goto("sighash")
        /\ UNCHANGED <<request, params, erc20, hash, host_nonce>>
        /\ NoStandalone

\* line 118 or 181 answered, back in process at line 230
AnswerVerifyTotalFee ==
    \E accept \in BOOLEAN : Answer("verify_total_fee", accept, <<>>, "sighash")

SighashParams ==
    [nonce |-> request.nonce, gas_price |-> request.gas_price, gas_limit |-> request.gas_limit,
     recipient |-> parse_recipient(request.recipient)[1], value |-> request.value,
     data |-> request.data, chain_id |-> params[1].chain_id]

\* lines 230-239
Sighash ==
    /\ pc = "sighash"
    /\ \E ok \in BOOLEAN :
        IF ok
        THEN /\ hash' = Some(<<"sighash", SighashParams>>)
             /\ log' = log \o <<Call("sighash", SighashParams), Ret("sighash", <<"Ok">>)>>
             /\ Goto("antiklepto")
        ELSE /\ hash' = hash
             /\ log' = log \o <<Call("sighash", SighashParams), Ret("sighash", <<"Err">>)>>
             /\ Fail("InvalidInput")
    /\ UNCHANGED <<request, params, erc20, host_nonce>>
    /\ NoStandalone

\* AntiKlepto checking the commitment length only after the keystore call.
AntiKleptoLateLengthCheck ==
    /\ pc = "antiklepto"
    /\ IF request.host_nonce_commitment = None
       THEN /\ host_nonce' = Some(Zeros(32))
            /\ log' = log
            /\ Goto("sign")
       ELSE LET commitment == request.host_nonce_commitment[1]
                commit == Call("secp256k1_nonce_commit", <<request.keypath, hash[1], commitment>>)
            IN  /\ host_nonce' = host_nonce
                /\ IF Len(commitment) # COMMITMENT_LEN
                   THEN /\ log' = log \o <<commit, Ret("secp256k1_nonce_commit", <<"Err">>)>>
                        /\ Fail("InvalidInput")
                   ELSE \/ \E signer_commitment \in SignerCommitments :
                             /\ log' = log \o <<commit,
                                                 Ret("secp256k1_nonce_commit", <<"Ok", signer_commitment>>),
                                                 Call("antiklepto_get_host_nonce", signer_commitment)>>
                             /\ Goto("await_antiklepto_get_host_nonce")
                        \/ /\ log' = log \o <<commit, Ret("secp256k1_nonce_commit", <<"Err">>)>>
                           /\ Fail(KeystoreError)
    /\ UNCHANGED <<request, params, erc20, hash>>
    /\ NoStandalone

\* AntiKlepto rejecting only a commitment that is too long.
AntiKleptoAcceptingShortCommitment ==
    /\ pc = "antiklepto"
    /\ IF request.host_nonce_commitment = None
       THEN /\ host_nonce' = Some(Zeros(32))
            /\ log' = log
            /\ Goto("sign")
       ELSE LET commitment == request.host_nonce_commitment[1]
                commit == Call("secp256k1_nonce_commit", <<request.keypath, hash[1], commitment>>)
            IN  /\ host_nonce' = host_nonce
                /\ IF Len(commitment) > COMMITMENT_LEN
                   THEN Fail("InvalidInput") /\ log' = log
                   ELSE \/ \E signer_commitment \in SignerCommitments :
                             /\ log' = log \o <<commit,
                                                 Ret("secp256k1_nonce_commit", <<"Ok", signer_commitment>>),
                                                 Call("antiklepto_get_host_nonce", signer_commitment)>>
                             /\ Goto("await_antiklepto_get_host_nonce")
                        \/ /\ log' = log \o <<commit, Ret("secp256k1_nonce_commit", <<"Err">>)>>
                           /\ Fail(KeystoreError)
    /\ UNCHANGED <<request, params, erc20, hash>>
    /\ NoStandalone

\* AntiKlepto with a placeholder of ones when there is no commitment.
AntiKleptoOnesPlaceholder ==
    /\ pc = "antiklepto"
    /\ IF request.host_nonce_commitment = None
       THEN /\ host_nonce' = Some(Repeat(1, 32))
            /\ log' = log
            /\ Goto("sign")
       ELSE LET commitment == request.host_nonce_commitment[1]
                commit == Call("secp256k1_nonce_commit", <<request.keypath, hash[1], commitment>>)
            IN  /\ host_nonce' = host_nonce
                /\ IF Len(commitment) # COMMITMENT_LEN
                   THEN Fail("InvalidInput") /\ log' = log
                   ELSE \/ \E signer_commitment \in SignerCommitments :
                             /\ log' = log \o <<commit,
                                                 Ret("secp256k1_nonce_commit", <<"Ok", signer_commitment>>),
                                                 Call("antiklepto_get_host_nonce", signer_commitment)>>
                             /\ Goto("await_antiklepto_get_host_nonce")
                        \/ /\ log' = log \o <<commit, Ret("secp256k1_nonce_commit", <<"Err">>)>>
                           /\ Fail(KeystoreError)
    /\ UNCHANGED <<request, params, erc20, hash>>
    /\ NoStandalone

\* lines 241-259, up to the await of the host nonce
AntiKlepto ==
    /\ pc = "antiklepto"
    /\ IF request.host_nonce_commitment = None
       THEN /\ host_nonce' = Some(Zeros(32))
            /\ log' = log
            /\ Goto("sign")
       ELSE LET commitment == request.host_nonce_commitment[1]
                commit == Call("secp256k1_nonce_commit", <<request.keypath, hash[1], commitment>>)
            IN  /\ host_nonce' = host_nonce
                /\ IF Len(commitment) # COMMITMENT_LEN
                   THEN Fail("InvalidInput") /\ log' = log
                   ELSE \/ \E signer_commitment \in SignerCommitments :
                             /\ log' = log \o <<commit,
                                                 Ret("secp256k1_nonce_commit", <<"Ok", signer_commitment>>),
                                                 Call("antiklepto_get_host_nonce", signer_commitment)>>
                             /\ Goto("await_antiklepto_get_host_nonce")
                        \/ /\ log' = log \o <<commit, Ret("secp256k1_nonce_commit", <<"Err">>)>>
                           /\ Fail(KeystoreError)
    /\ UNCHANGED <<request, params, erc20, hash>>
    /\ NoStandalone

\* AnswerHostNonce going on to sign with the placeholder when the host fails.
AnswerHostNonceIgnoringError ==
    /\ pc = "await_antiklepto_get_host_nonce"
    /\ \/ \E nonce \in HostNonces :
            /\ host_nonce' = Some(nonce)
            /\ log' = Append(log, Ret("antiklepto_get_host_nonce", <<"Ok", nonce>>))
            /\ Goto("sign")
       \/ \E error \in HostErrors :
            /\ host_nonce' = Some(Zeros(32))
            /\ log' = Append(log, Ret("antiklepto_get_host_nonce", <<"Err", error>>))
            /\ Goto("sign")
    /\ UNCHANGED <<request, params, erc20, hash>>
    /\ NoStandalone

\* line 254 answered
AnswerHostNonce ==
    /\ pc = "await_antiklepto_get_host_nonce"
    /\ \/ \E nonce \in HostNonces :
            /\ host_nonce' = Some(nonce)
            /\ log' = Append(log, Ret("antiklepto_get_host_nonce", <<"Ok", nonce>>))
            /\ Goto("sign")
       \/ \E error \in HostErrors :
            /\ host_nonce' = host_nonce
            /\ log' = Append(log, Ret("antiklepto_get_host_nonce", <<"Err", error>>))
            /\ Fail(error)
    /\ UNCHANGED <<request, params, erc20, hash>>
    /\ NoStandalone

\* SignResponse with the recovery id in front of the signature.
SignResponseRecidFirst(sign_result) == <<sign_result.recid>> \o sign_result.signature

\* The response built from a sign result: lines 262-265.
SignResponse(sign_result) == Append(sign_result.signature, sign_result.recid)

\* Sign ignoring the host nonce.
SignWithZeroNonce ==
    /\ pc = "sign"
    /\ LET call == Call("secp256k1_sign", <<request.keypath, hash[1], Zeros(32)>>)
       IN  \/ \E sign_result \in SignResults :
                /\ log' = log \o <<call, Ret("secp256k1_sign", <<"Ok", sign_result>>)>>
                /\ result' = [tag |-> "Sign", signature |-> SignResponse(sign_result), at |-> pc]
                /\ pc' = "done"
           \/ /\ log' = log \o <<call, Ret("secp256k1_sign", <<"Err">>)>>
              /\ Fail(KeystoreError)
    /\ UNCHANGED <<request, params, erc20, hash, host_nonce>>
    /\ NoStandalone

\* Sign comparing the revealed host nonce with the commitment first.
SignCheckingCommitment ==
    /\ pc = "sign"
    /\ LET call == Call("secp256k1_sign", <<request.keypath, hash[1], host_nonce[1]>>)
       IN  IF /\ request.host_nonce_commitment # None
              /\ host_commitment_of(host_nonce[1]) # request.host_nonce_commitment[1]
           THEN /\ log' = log
                /\ Fail("ProtocolFault")
           ELSE \/ \E sign_result \in SignResults :
                     /\ log' = log \o <<call, Ret("secp256k1_sign", <<"Ok", sign_result>>)>>
                     /\ result' = [tag |-> "Sign", signature |-> SignResponse(sign_result), at |-> pc]
                     /\ pc' = "done"
                \/ /\ log' = log \o <<call, Ret("secp256k1_sign", <<"Err">>)>>
                   /\ Fail(KeystoreError)
    /\ UNCHANGED <<request, params, erc20, hash, host_nonce>>
    /\ NoStandalone

\* Sign reporting a keystore failure as InvalidInput.
SignFailureAsInvalidInput ==
    /\ pc = "sign"
    /\ LET call == Call("secp256k1_sign", <<request.keypath, hash[1], host_nonce[1]>>)
       IN  \/ \E sign_result \in SignResults :
                /\ log' = log \o <<call, Ret("secp256k1_sign", <<"Ok", sign_result>>)>>
                /\ result' = [tag |-> "Sign", signature |-> SignResponse(sign_result), at |-> pc]
                /\ pc' = "done"
           \/ /\ log' = log \o <<call, Ret("secp256k1_sign", <<"Err">>)>>
              /\ Fail("InvalidInput")
    /\ UNCHANGED <<request, params, erc20, hash, host_nonce>>
    /\ NoStandalone

\* lines 260-265
Sign ==
    /\ pc = "sign"
    /\ LET call == Call("secp256k1_sign", <<request.keypath, hash[1], host_nonce[1]>>)
       IN  \/ \E sign_result \in SignResults :
                /\ log' = log \o <<call, Ret("secp256k1_sign", <<"Ok", sign_result>>)>>
                /\ result' = [tag |-> "Sign", signature |-> SignResponse(sign_result), at |-> pc]
                /\ pc' = "done"
           \/ /\ log' = log \o <<call, Ret("secp256k1_sign", <<"Err">>)>>
              /\ Fail(KeystoreError)
    /\ UNCHANGED <<request, params, erc20, hash, host_nonce>>
    /\ NoStandalone

Next ==
    \/ ParamsGet
    \/ CheckKeypath
    \/ AnswerWarnUnusualKeypath
    \/ SizeLimits
    \/ ZeroPrefix
    \/ CheckRecipient
    \/ Classify
    \/ VerifyErc20Begin
    \/ VerifyStandardBegin
    \/ AnswerUnknownContract
    \/ AnswerUnderstand
    \/ AnswerTransactionData
    \/ AnswerVerifyRecipient
    \/ AnswerVerifyTotalFee
    \/ Sighash
    \/ AntiKlepto
    \/ AnswerHostNonce
    \/ Sign

Spec == Init /\ [][Next]_vars

\* process with its steps run and its awaits answered: the executor polls the
\* future until it is ready, and every confirmation and the host nonce round trip
\* eventually get an answer.
\* Requests with one digit amounts (1 wei at a gas price of 2 wei and a gas
\* limit of 3, a token magnitude of 1); the steps taken do not depend on the
\* amounts beyond the checks of their encoding.
LiveRequests ==
    [coin : Coins, keypath : Keypaths, nonce : {<<31, 220>>, <<0, 1>>},
     gas_price : {<<2>>}, gas_limit : {<<3>>, Repeat(1, 17)},
     recipient : {RECIPIENT, USDT_CONTRACT, Zeros(20), Repeat(97, 19)},
     value : {<<>>, <<1>>},
     data : {<<>>, FOO_BAR, Erc20Data(ERC20_METHOD, Zeros(12), ERC20_RECIPIENT, Zeros(31) \o <<1>>)},
     host_nonce_commitment : HostNonceCommitments]

InitLive ==
    /\ request \in LiveRequests
    /\ pc = "params_get"
    /\ params = None
    /\ erc20 = None
    /\ hash = None
    /\ host_nonce = None
    /\ log = <<>>
    /\ result = Running
    /\ pe_request = [value |-> <<>>, data |-> <<>>]
    /\ pe_result = <<"todo">>
    /\ am_request = [coin |-> COIN_ETH, gas_price |-> <<>>, gas_limit |-> <<>>, value |-> <<>>]
    /\ am_result = <<"todo">>

LiveSpec == InitLive /\ [][Next]_vars /\ WF_vars(Next)

----------------------------------------------------------------------------
(* parse_erc20 on its own *)

PeMethods == {ERC20_METHOD, <<168, 5, 156, 187>>, <<169, 5, 156, 188>>}

PePaddings == {Zeros(12), Zeros(11) \o <<98>>, <<1>> \o Zeros(11), Zeros(11)}

\* b"abcdefghijklmnopqrst"
ABC_RECIPIENT == [i \in 1..20 |-> 96 + i]

PeRecipients == {ERC20_RECIPIENT, Zeros(20), ABC_RECIPIENT}

PeValues ==
    {Zeros(32), Zeros(28) \o <<3, 101, 192, 64>>, Zeros(27) \o <<85, 0, 0, 0, 255>>,
     <<1>> \o Zeros(31), Repeat(255, 32), Zeros(31) \o <<1>>}

PeTails == {Zeros(e) : e \in 0..MaxExcess} \cup {Repeat(7, e) : e \in 1..MaxExcess}

PeNativeValues == {<<>>, <<0>>, <<1>>}

PeDatas ==
    {Erc20Data(m, p, r, v) \o t :
        m \in PeMethods, p \in PePaddings, r \in PeRecipients, v \in PeValues, t \in PeTails}
    \cup {<<>>, FOO_BAR}

InitParseErc20 ==
    /\ pe_request \in [value : PeNativeValues, data : PeDatas]
    /\ pe_result = <<"todo">>
    /\ am_request = [coin |-> COIN_ETH, gas_price |-> <<>>, gas_limit |-> <<>>, value |-> <<>>]
    /\ am_result = <<"todo">>
    /\ request = [coin |-> COIN_ETH, keypath |-> KEYPATH_ETH, nonce |-> <<>>, gas_price |-> <<>>,
                  gas_limit |-> <<>>, recipient |-> RECIPIENT, value |-> <<>>, data |-> <<>>,
                  host_nonce_commitment |-> None]
    /\ pc = "idle"
    /\ params = None
    /\ erc20 = None
    /\ hash = None
    /\ host_nonce = None
    /\ log = <<>>
    /\ result = Running

\* One evaluation of parse_erc20 (lines 46-70).
ParseErc20 ==
    /\ pe_result = <<"todo">>
    /\ pc = "idle"
    /\ pe_result' = <<"done", parse_erc20(pe_request)>>
    /\ UNCHANGED <<request, pc, params, erc20, hash, host_nonce, log, result, pe_request>>
    /\ UNCHANGED <<am_request, am_result>>

NextParseErc20 == ParseErc20

SpecParseErc20 == InitParseErc20 /\ [][NextParseErc20]_vars

----------------------------------------------------------------------------
(* The fee and the total on their own *)

\* Gas prices within the 16 byte limit of line 196.
AmGasPrices ==
    {<<>>, <<1>>, <<1, 101, 160, 188, 0>>, <<128>> \o Zeros(15), Repeat(255, 16)}

\* Gas limits within the 16 byte limit of line 197.
AmGasLimits ==
    {<<>>, <<82, 8>>, <<255>>, <<1>> \o Zeros(15), Repeat(255, 16)}

\* Values within the 32 byte limit of line 199.
AmValues ==
    {<<>>, <<1>>, <<7, 92, 241, 37, 158, 156, 64, 0>>, Repeat(255, 16), Repeat(255, 32)}

InitAmounts ==
    /\ am_request \in [coin : {COIN_ETH, COIN_ROPSTEN}, gas_price : AmGasPrices,
                        gas_limit : AmGasLimits, value : AmValues]
    /\ am_result = <<"todo">>
    /\ pe_request = [value |-> <<>>, data |-> <<>>]
    /\ pe_result = <<"todo">>
    /\ request = [coin |-> COIN_ETH, keypath |-> KEYPATH_ETH, nonce |-> <<>>, gas_price |-> <<>>,
                  gas_limit |-> <<>>, recipient |-> RECIPIENT, value |-> <<>>, data |-> <<>>,
                  host_nonce_commitment |-> None]
    /\ pc = "idle"
    /\ params = None
    /\ erc20 = None
    /\ hash = None
    /\ host_nonce = None
    /\ log = <<>>
    /\ result = Running

\* One evaluation of parse_fee (lines 73-81) and of the total of lines 168-180.
Amounts ==
    /\ am_result = <<"todo">>
    /\ pc = "idle"
    /\ LET ps == params_get(am_request.coin)[1]
       IN  am_result' = <<"done", parse_fee(am_request, ps).value,
                          standard_amounts(am_request, ps).total.value>>
    /\ UNCHANGED <<request, pc, params, erc20, hash, host_nonce, log, result>>
    /\ UNCHANGED <<pe_request, pe_result, am_request>>

NextAmounts == Amounts

SpecAmounts == InitAmounts /\ [][NextAmounts]_vars

----------------------------------------------------------------------------
(* Properties *)

ConfirmFns ==
    {"warn_unusual_keypath", "unknown_contract", "understand", "transaction_data",
     "verify_recipient", "verify_total_fee"}

RawDataFns == {"unknown_contract", "understand", "transaction_data"}

KeystoreFns == {"secp256k1_nonce_commit", "secp256k1_sign"}

HostFns == {"antiklepto_get_host_nonce"}

\* Positions in the log of the calls to the functions `fns`.
CallsOf(fns) == {i \in DOMAIN log : log[i].ev = "call" /\ log[i].fn \in fns}

\* Positions in the log of the rejected confirmations.
Rejections ==
    {i \in DOMAIN log : log[i].ev = "ret" /\ log[i].fn \in ConfirmFns /\ log[i].val = FALSE}

\* The confirmation requested at position j was accepted before position i.
AcceptedBefore(j, i) ==
    \E k \in (j + 1)..(i - 1) : log[k].ev = "ret" /\ log[k].fn = log[j].fn /\ log[k].val = TRUE

Called(fns) == {log[i].fn : i \in CallsOf(fns)}

CoinKnown(req) == req.coin \in {COIN_ETH, COIN_ROPSTEN}

KeypathUnusual(req) ==
    /\ req.coin = COIN_ETH => req.keypath[2] # Hard(60)
    /\ req.coin = COIN_ROPSTEN => req.keypath[2] # Hard(1)

SizesWithinLimits(req) ==
    /\ Len(req.nonce) <= 16
    /\ Len(req.gas_price) <= 16
    /\ Len(req.gas_limit) <= 16
    /\ Len(req.value) <= 32
    /\ Len(req.data) <= 1024

Canonical(req) ==
    \A field \in {req.nonce, req.gas_price, req.gas_limit, req.value} :
        field = <<>> \/ field[1] # 0

\* All checks of the input validator.
ValidatorPasses(req) ==
    /\ CoinKnown(req)
    /\ is_valid_keypath_address(req.keypath)
    /\ SizesWithinLimits(req)
    /\ Canonical(req)
    /\ Len(req.recipient) = 20
    /\ \E i \in DOMAIN req.recipient : req.recipient[i] # 0

\* The unusual keypath warning was rejected, and nothing else was asked.
AbortedAtWarning ==
    /\ result.tag = "UserAbort"
    /\ result.at = "await_warn_unusual_keypath"
    /\ KeypathUnusual(request)
    /\ Called(ConfirmFns) = {"warn_unusual_keypath"}

\* C1: the hash is computed and the keystore is used only after every confirmation
\* requested for the request (the unusual keypath warning, the three raw data
\* confirmations when shown, recipient/amount, total/fee) was accepted.
C1_ConsentBeforeSigning ==
    \A i \in CallsOf({"sighash"} \cup KeystoreFns) :
        /\ \A j \in CallsOf(ConfirmFns) : j < i /\ AcceptedBefore(j, i)
        /\ {"verify_recipient", "verify_total_fee"} \subseteq Called(ConfirmFns)
        /\ KeypathUnusual(request) => "warn_unusual_keypath" \in Called(ConfirmFns)
        /\ (erc20 = None /\ request.data # <<>>) => RawDataFns \subseteq Called(ConfirmFns)

C1_Witness ==
    /\ result.tag = "Sign"
    /\ Called(ConfirmFns) = ConfirmFns
    /\ Called(KeystoreFns) = KeystoreFns

\* C2: a rejected confirmation makes process return UserAbort at once: no further
\* confirmation is requested, no hash is computed, no host round trip happens and
\* no signature is produced.
C2_RejectAborts ==
    \A i \in Rejections :
        /\ i = Len(log)
        /\ pc = "done"
        /\ result.tag = "UserAbort"
        /\ result.signature = <<>>
        /\ hash = None
        /\ CallsOf({"sighash"} \cup KeystoreFns \cup HostFns) = {}

C2_Witness ==
    /\ Rejections # {}
    /\ log[Len(log)].fn = "verify_total_fee"
    /\ Called(ConfirmFns) = ConfirmFns
    /\ result.tag = "UserAbort"

\* C3 as stated: no confirmation of any kind is requested until all checks of the
\* input validator have passed.
C3_NoConfirmationBeforeValidation ==
    CallsOf(ConfirmFns) # {} => ValidatorPasses(request)

\* C3: the unusual keypath warning is requested first and only once the coin and
\* the keypath shape have been checked; every other confirmation is requested only
\* after all checks of the input validator have passed.
C3_OnlyWarningBeforeValidation ==
    \A j \in CallsOf(ConfirmFns) :
        IF log[j].fn = "warn_unusual_keypath"
        THEN j = 1 /\ CoinKnown(request) /\ is_valid_keypath_address(request.keypath)
        ELSE ValidatorPasses(request)

C3_Witness ==
    /\ Called(ConfirmFns) = {"warn_unusual_keypath"}
    /\ ~ValidatorPasses(request)
    /\ result.tag = "InvalidInput"

\* The places process itself returns InvalidInput from.
ValidatorSteps == {"params_get", "keypath", "size_limits", "zero_prefix", "recipient"}

InvalidInputSteps == ValidatorSteps \cup {"verify_standard_transaction", "sighash", "antiklepto"}

\* C4 as stated: whenever process returns InvalidInput (validator checks, empty
\* payload and value, sighash failure, wrong length commitment), no confirmation
\* was requested, no hash was computed and no keystore or host call was made.
C4_InvalidInputWithoutSideEffect ==
    (result.tag = "InvalidInput" /\ result.at \in InvalidInputSteps) =>
        /\ CallsOf(ConfirmFns) = {}
        /\ hash = None
        /\ CallsOf(KeystoreFns \cup HostFns) = {}

\* C4: whenever process returns InvalidInput from one of these places, no keystore
\* or host call was made.  From the coin and keypath checks, nothing was requested
\* at all; from the later validator checks and the empty payload and value check,
\* only the unusual keypath warning can have been requested and no hash was
\* computed; a sighash failure and a wrong length commitment come after all
\* confirmations, the latter also after the hash.
C4_InvalidInputBeforeKeystore ==
    (result.tag = "InvalidInput" /\ result.at \in InvalidInputSteps) =>
        /\ CallsOf(KeystoreFns \cup HostFns) = {}
        /\ result.at \in {"params_get", "keypath"} => log = <<>>
        /\ result.at \in (ValidatorSteps \cup {"verify_standard_transaction"}) =>
                /\ Called(ConfirmFns) \subseteq {"warn_unusual_keypath"}
                /\ CallsOf({"sighash"}) = {}
        /\ result.at \in {"sighash", "antiklepto"} =>
                {"verify_recipient", "verify_total_fee"} \subseteq Called(ConfirmFns)
        /\ result.at = "sighash" => hash = None
        /\ result.at = "antiklepto" => hash # None

C4_Witness ==
    /\ result.tag = "InvalidInput"
    /\ result.at = "antiklepto"
    /\ Len(request.host_nonce_commitment[1]) # 32

\* C5 as stated: a recipient that is not 20 bytes long always gives InvalidInput.
C5_BadRecipientLengthInvalidInput ==
    (pc = "done" /\ Len(request.recipient) # 20) => result.tag = "InvalidInput"

\* C5: a recipient that is not 20 bytes long gives InvalidInput, unless the keypath
\* is unusual and the user rejects the warning, which gives UserAbort.
C5_BadRecipientLengthNeverSigned ==
    (pc = "done" /\ Len(request.recipient) # 20) =>
        result.tag = "InvalidInput" \/ AbortedAtWarning

C5_Witness ==
    /\ Len(request.recipient) # 20
    /\ result.tag = "InvalidInput"
    /\ result.at = "recipient"

\* C6 as stated: the all-zero 20 byte recipient always gives InvalidInput.
C6_ZeroRecipientInvalidInput ==
    (pc = "done" /\ request.recipient = Zeros(20)) => result.tag = "InvalidInput"

\* C6: the all-zero 20 byte recipient gives InvalidInput, unless the keypath is
\* unusual and the user rejects the warning, which gives UserAbort.
C6_ZeroRecipientNeverSigned ==
    (pc = "done" /\ request.recipient = Zeros(20)) =>
        result.tag = "InvalidInput" \/ AbortedAtWarning

C6_Witness ==
    /\ request.recipient = Zeros(20)
    /\ result.tag = "InvalidInput"
    /\ result.at = "recipient"

\* C7 as stated: a nonce, gas price, gas limit or value that is not empty and
\* starts with a zero byte always gives InvalidInput.
C7_ZeroPrefixInvalidInput ==
    (pc = "done" /\ ~Canonical(request)) => result.tag = "InvalidInput"

\* C7: such a request gives InvalidInput, unless the keypath is unusual and the
\* user rejects the warning, which gives UserAbort.
C7_ZeroPrefixNeverSigned ==
    (pc = "done" /\ ~Canonical(request)) =>
        result.tag = "InvalidInput" \/ AbortedAtWarning

C7_Witness ==
    /\ ~Canonical(request)
    /\ result.tag = "InvalidInput"
    /\ result.at = "zero_prefix"

\* C8 as stated: a request over a size limit always gives InvalidInput.
C8_OversizedInvalidInput ==
    (pc = "done" /\ ~SizesWithinLimits(request)) => result.tag = "InvalidInput"

\* C8: a request over a size limit (nonce, gas price or gas limit over 16 bytes,
\* value over 32, data over 1024) gives InvalidInput, unless the keypath is unusual
\* and the user rejects the warning, which gives UserAbort.
C8_OversizedNeverSigned ==
    (pc = "done" /\ ~SizesWithinLimits(request)) =>
        result.tag = "InvalidInput" \/ AbortedAtWarning

C8_Witness ==
    /\ ~SizesWithinLimits(request)
    /\ result.tag = "InvalidInput"
    /\ result.at = "size_limits"

\* C9: an unknown coin, or a keypath that fails the shape check, gives InvalidInput
\* without any confirmation, the unusual keypath warning included.
C9_UnknownCoinOrBadKeypath ==
    (~CoinKnown(request) \/ ~is_valid_keypath_address(request.keypath)) =>
        /\ log = <<>>
        /\ pc \in {"params_get", "keypath", "done"}
        /\ pc = "done" => result.tag = "InvalidInput"

C9_Witness ==
    /\ CoinKnown(request)
    /\ request.keypath = KEYPATH_WRONG_COIN
    /\ result.tag = "InvalidInput"
    /\ result.at = "keypath"

\* The ERC20 transfer pattern: no value, 68 bytes of data, the transfer method,
\* 12 zero bytes, 20 bytes of recipient and a 32 byte value that is not zero.
TokenPattern(req) ==
    /\ req.value = <<>>
    /\ Len(req.data) = 68
    /\ \A i \in 1..4 : req.data[i] = <<169, 5, 156, 187>>[i]
    /\ \A i \in 5..16 : req.data[i] = 0
    /\ \E i \in 37..68 : req.data[i] # 0

\* C10: parse_erc20 returns a token transfer exactly for the ERC20 transfer
\* pattern, with the recipient of bytes 16..36 and the big-endian number of bytes
\* 36..68; it returns nothing for every other request.
C10_ParseErc20Exact ==
    pe_result # <<"todo">> =>
        IF TokenPattern(pe_request)
        THEN /\ pe_result[2] # None
             /\ LET recipient == pe_result[2][1][1]
                    value == pe_result[2][1][2]
                IN  /\ recipient = [i \in 1..20 |-> pe_request.data[16 + i]]
                    /\ value # <<>> /\ value[1] # 0
                    /\ Zeros(32 - Len(value)) \o value = [i \in 1..32 |-> pe_request.data[36 + i]]
        ELSE pe_result[2] = None

C10_Witness ==
    /\ pe_result # <<"todo">>
    /\ TokenPattern(pe_request)
    /\ pe_result[2] = Some(<<ABC_RECIPIENT, <<85, 0, 0, 0, 255>>>>)

\* h is the hexadecimal text of bytes: two digits per byte, high digit first.
IsHexOf(h, bytes) ==
    /\ Len(h) = 2 * Len(bytes)
    /\ \A i \in 1..Len(bytes) : 16 * h[2 * i - 1] + h[2 * i] = bytes[i]

IsStandardConfirmCall(e) ==
    e.ev = "call" /\ e.fn \in (ConfirmFns \ {"warn_unusual_keypath"})

StandardOrder ==
    <<"unknown_contract", "understand", "transaction_data", "verify_recipient", "verify_total_fee">>

\* The unit of the coin of a request with a known coin.
NativeUnit(req) == IF req.coin = COIN_ETH THEN "ETH" ELSE "TETH"

\* "0.530564 <unit>", the text of the value 0x075cf1259e9c4000 wei
ValueText(unit) == <<"0", ".", "5", "3", "0", "5", "6", "4", " ", unit>>

\* "0.000126 <unit>", the text of the fee 0x0165a0bc00 * 0x5208 wei
FeeText(unit) == <<"0", ".", "0", "0", "0", "1", "2", "6", " ", unit>>

\* "0.53069 <unit>", the text of their sum
TotalText(unit) == <<"0", ".", "5", "3", "0", "6", "9", " ", unit>>

\* C11: for a standard transfer with data, the confirmations after the keypath
\* warning are requested in this order, each right after the previous one was
\* accepted: unknown contract warning, "only proceed if you understand" warning,
\* the full data as hex, the recipient with the native value, the total with the fee.
C11_StandardOrderWithData ==
    (~TokenPattern(request) /\ request.data # <<>>) =>
        LET calls == SelectSeq(log, IsStandardConfirmCall)
        IN  /\ Len(calls) <= 5
            /\ \A k \in 1..Len(calls) : calls[k].fn = StandardOrder[k]
            /\ result.tag = "Sign" => Len(calls) = 5
            /\ \A j \in CallsOf(ConfirmFns) :
                /\ log[j].fn = "unknown_contract" =>
                        log[j].val = <<"Unknown\ncontract", "You will be shown\nthe raw\ntransaction data.">>
                /\ log[j].fn = "understand" =>
                        /\ log[j - 1] = Ret("unknown_contract", TRUE)
                        /\ log[j].val = <<"Unknown\ncontract",
                                          "Only proceed if you\nunderstand exactly\nwhat the data means.">>
                /\ log[j].fn = "transaction_data" =>
                        /\ log[j - 1] = Ret("understand", TRUE)
                        /\ log[j].val[1] = "Transaction\ndata"
                        /\ IsHexOf(log[j].val[2], request.data)
                /\ log[j].fn = "verify_recipient" =>
                        /\ log[j - 1] = Ret("transaction_data", TRUE)
                        /\ log[j].val[1][1] = "0x"
                        /\ IsHexOf(log[j].val[1][2], request.recipient)
                        /\ request.value # <<>> => log[j].val[2] = ValueText(NativeUnit(request))
                /\ log[j].fn = "verify_total_fee" =>
                        /\ log[j - 1] = Ret("verify_recipient", TRUE)
                        /\ request.value # <<>> =>
                                log[j].val = <<TotalText(NativeUnit(request)), FeeText(NativeUnit(request))>>

C11_Witness ==
    /\ request.data = FOO_BAR
    /\ result.tag = "Sign"
    /\ Len(SelectSeq(log, IsStandardConfirmCall)) = 5

\* C12: when the keypath is valid but unusual for the coin, the unusual keypath
\* warning is the first confirmation requested, and no other confirmation is
\* requested unless it was accepted.
C12_WarningFirst ==
    (CoinKnown(request) /\ is_valid_keypath_address(request.keypath) /\ KeypathUnusual(request)) =>
        /\ pc \notin {"params_get", "keypath"} =>
                /\ log # <<>>
                /\ log[1].ev = "call" /\ log[1].fn = "warn_unusual_keypath"
        /\ \A j \in CallsOf(ConfirmFns) :
                IF j = 1 THEN log[j].fn = "warn_unusual_keypath"
                ELSE /\ log[j].fn # "warn_unusual_keypath"
                     /\ log[1].fn = "warn_unusual_keypath"
                     /\ log[2] = Ret("warn_unusual_keypath", TRUE)

C12_Witness ==
    /\ KeypathUnusual(request)
    /\ log # <<>>
    /\ log[1].fn = "warn_unusual_keypath"
    /\ Called(ConfirmFns) = ConfirmFns
    /\ result.tag = "Sign"

IsKeystoreOrHostEvent(e) == e.fn \in (KeystoreFns \cup HostFns)

WrongLengthCommitment(req) ==
    /\ req.host_nonce_commitment # None
    /\ Len(req.host_nonce_commitment[1]) # 32

WellFormedCommitment(req) ==
    /\ req.host_nonce_commitment # None
    /\ Len(req.host_nonce_commitment[1]) = 32

\* C13 as stated: with a host nonce commitment of the wrong length process returns
\* InvalidInput, and secp256k1_nonce_commit, secp256k1_sign and the host nonce
\* round trip are never invoked.
C13_WrongLengthInvalidInput ==
    WrongLengthCommitment(request) =>
        /\ \A i \in DOMAIN log : ~IsKeystoreOrHostEvent(log[i])
        /\ pc = "done" => result.tag = "InvalidInput"

\* C13: with a host nonce commitment of the wrong length, secp256k1_nonce_commit,
\* secp256k1_sign and the host nonce round trip are never invoked, and process
\* returns InvalidInput, except that it returns UserAbort when the user rejected
\* a confirmation: all of them are requested before the length is checked.  An
\* execution in which nothing was rejected and the hash was computed returns
\* InvalidInput from the length check.
C13_WrongLengthCommitment ==
    WrongLengthCommitment(request) =>
        /\ \A i \in DOMAIN log : ~IsKeystoreOrHostEvent(log[i])
        /\ host_nonce = None
        /\ pc \notin {"await_antiklepto_get_host_nonce", "sign"}
        /\ pc = "done" =>
                /\ Rejections = {} => result.tag = "InvalidInput"
                /\ Rejections # {} =>
                        /\ result.tag = "UserAbort"
                        /\ log[Len(log)].fn \in ConfirmFns
                        /\ hash = None
                /\ hash # None => (result.tag = "InvalidInput" /\ result.at = "antiklepto")

\* A commitment one byte too long gets to the length check, after the
\* confirmations and the hash, and is refused there.
C13_Witness ==
    /\ WrongLengthCommitment(request)
    /\ Len(request.host_nonce_commitment[1]) > COMMITMENT_LEN
    /\ pc = "done"
    /\ hash # None
    /\ result.tag = "InvalidInput"
    /\ result.at = "antiklepto"
    /\ Called(ConfirmFns) # {}
    /\ \A i \in DOMAIN log : ~IsKeystoreOrHostEvent(log[i])

\* C14: with a well-formed commitment, the keystore and host steps are, in this
\* order and each once: secp256k1_nonce_commit(keypath, hash, commitment), the host
\* round trip sending the signer commitment it returned, secp256k1_sign with the
\* host nonce that round trip returned.  A failing step ends the sequence.
C14_AntiKleptoOrder ==
    WellFormedCommitment(request) =>
        LET ev == SelectSeq(log, IsKeystoreOrHostEvent)
            IsCall(k, fn) == ev[k].ev = "call" /\ ev[k].fn = fn
            IsRet(k, fn) == ev[k].ev = "ret" /\ ev[k].fn = fn
        IN  /\ Len(ev) <= 6
            /\ Len(ev) >= 1 =>
                    /\ IsCall(1, "secp256k1_nonce_commit")
                    /\ ev[1].val = <<request.keypath, hash[1], request.host_nonce_commitment[1]>>
            /\ Len(ev) >= 2 =>
                    /\ IsRet(2, "secp256k1_nonce_commit")
                    /\ ev[2].val[1] = "Err" => (Len(ev) = 2 /\ pc = "done")
            /\ Len(ev) >= 3 =>
                    /\ IsCall(3, "antiklepto_get_host_nonce")
                    /\ ev[3].val = ev[2].val[2]
            /\ Len(ev) >= 4 =>
                    /\ IsRet(4, "antiklepto_get_host_nonce")
                    /\ ev[4].val[1] = "Err" => (Len(ev) = 4 /\ pc = "done")
            /\ Len(ev) >= 5 =>
                    /\ IsCall(5, "secp256k1_sign")
                    /\ ev[5].val = <<request.keypath, hash[1], ev[4].val[2]>>
            /\ Len(ev) >= 6 => IsRet(6, "secp256k1_sign")
            /\ host_nonce # None => (Len(ev) >= 4 /\ host_nonce[1] = ev[4].val[2])
            /\ result.tag = "Sign" => Len(ev) = 6

C14_Witness ==
    /\ WellFormedCommitment(request)
    /\ result.tag = "Sign"
    /\ host_nonce = Some(Repeat(17, 32))
    /\ Len(SelectSeq(log, IsKeystoreOrHostEvent)) = 6

\* C15: without a host nonce commitment, secp256k1_nonce_commit is never called and
\* there is no host nonce round trip; once the hash is computed secp256k1_sign is
\* called, exactly once, with a host nonce of 32 zero bytes.
C15_NoCommitmentZeroNonce ==
    request.host_nonce_commitment = None =>
        /\ CallsOf({"secp256k1_nonce_commit"} \cup HostFns) = {}
        /\ Cardinality(CallsOf({"secp256k1_sign"})) <= 1
        /\ \A i \in CallsOf({"secp256k1_sign"}) :
                log[i].val = <<request.keypath, hash[1], Zeros(32)>>
        /\ (pc = "done" /\ hash # None) => Cardinality(CallsOf({"secp256k1_sign"})) = 1

C15_Witness ==
    /\ request.host_nonce_commitment = None
    /\ result.tag = "Sign"
    /\ Cardinality(CallsOf({"secp256k1_sign"})) = 1
    /\ host_nonce = Some(Zeros(32))

\* The host revealed a nonce that its commitment was not made to.
CommitmentMismatch ==
    /\ WellFormedCommitment(request)
    /\ host_nonce # None
    /\ host_commitment_of(host_nonce[1]) # request.host_nonce_commitment[1]

\* What process can end with: a signature, InvalidInput, UserAbort, or the fault
\* of the keystore or of the host.
Outcomes == {"Sign", "InvalidInput", "UserAbort", KeystoreError} \cup HostErrors

\* C16 as stated: when the nonce revealed by the host does not match its
\* commitment, process ends in a ProtocolFault outcome.
C16_MismatchIsProtocolFault ==
    (pc = "done" /\ CommitmentMismatch) => result.tag = "ProtocolFault"

\* C16: process does not compare the revealed nonce with the commitment; the nonce
\* is handed to secp256k1_sign as it is, and process ends with the signature or,
\* when secp256k1_sign fails, with Generic.
C16_MismatchReachesSign ==
    CommitmentMismatch =>
        /\ pc \in {"sign", "done"}
        /\ pc = "done" =>
                /\ result.at = "sign"
                /\ result.tag \in {"Sign", "Generic"}
                /\ log[Len(log) - 1] =
                        Call("secp256k1_sign", <<request.keypath, hash[1], host_nonce[1]>>)
                /\ result.tag = "Generic" <=> log[Len(log)] = Ret("secp256k1_sign", <<"Err">>)

C16_Witness ==
    /\ pc = "done"
    /\ CommitmentMismatch
    /\ host_nonce = Some(Repeat(17, 32))
    /\ result.tag = "Sign"

\* C17: when secp256k1_sign fails, which happens only after the validation passed
\* and every requested confirmation was accepted, process returns Generic and no
\* signature.
C17_SignFailureIsGeneric ==
    \A i \in DOMAIN log :
        (log[i].ev = "ret" /\ log[i].fn = "secp256k1_sign" /\ log[i].val[1] = "Err") =>
            /\ i = Len(log)
            /\ pc = "done"
            /\ result = [tag |-> "Generic", signature |-> <<>>, at |-> "sign"]
            /\ ValidatorPasses(request)
            /\ Rejections = {}

C17_Witness ==
    /\ pc = "done"
    /\ log # <<>>
    /\ log[Len(log)].fn = "secp256k1_sign"
    /\ log[Len(log)].val[1] = "Err"
    /\ result.tag = "Generic"
    /\ result.signature = <<>>

EmptyTransaction(req) == req.data = <<>> /\ req.value = <<>>

\* C18 as stated: a request with empty payload and empty value gives InvalidInput,
\* and no confirmation of any kind was requested before.
C18_EmptyRejectedUnasked ==
    (pc = "done" /\ EmptyTransaction(request)) =>
        /\ result.tag = "InvalidInput"
        /\ CallsOf(ConfirmFns) = {}

\* C18: a request with empty payload and empty value is never shown a recipient,
\* amount, total, fee or raw data confirmation, is never hashed or signed, and
\* gives InvalidInput; only the unusual keypath warning can be requested before,
\* and its rejection gives UserAbort.
C18_EmptyRejected ==
    EmptyTransaction(request) =>
        /\ Called(ConfirmFns) \subseteq {"warn_unusual_keypath"}
        /\ hash = None
        /\ CallsOf({"sighash"} \cup KeystoreFns \cup HostFns) = {}
        /\ pc = "done" =>
                \/ result.tag = "InvalidInput"
                \/ AbortedAtWarning
        /\ (pc = "done" /\ ValidatorPasses(request)) =>
                \/ result.tag = "InvalidInput" /\ result.at = "verify_standard_transaction"
                \/ AbortedAtWarning

C18_Witness ==
    /\ EmptyTransaction(request)
    /\ result.tag = "InvalidInput"
    /\ result.at = "verify_standard_transaction"
    /\ Called(ConfirmFns) = {"warn_unusual_keypath"}

\* The request is a token transfer and its contract is in the table of tokens.
KnownToken(req) ==
    /\ TokenPattern(req)
    /\ req.coin = COIN_ETH
    /\ req.recipient = USDT_CONTRACT

\* "57 USDT", the text of the magnitude 0x0365c040 of a token with 6 decimals
TokenText == <<"5", "7", " ", "USDT">>

\* C19: for a transfer of a known token, the amount and the total shown are the
\* same text, the token magnitude in the unit and decimals of the token, shown with
\* the recipient of the transfer; the fee is shown in the unit of the coin and is
\* not part of the total.
C19_KnownTokenTexts ==
    KnownToken(request) =>
        /\ \A i \in CallsOf({"verify_recipient"}) :
                /\ log[i].val[1][1] = "0x"
                /\ IsHexOf(log[i].val[1][2], ERC20_RECIPIENT)
                /\ log[i].val[2] = TokenText
        /\ \A i \in CallsOf({"verify_total_fee"}) :
                /\ log[i].val[1] = TokenText
                /\ log[i].val[2] = FeeText("ETH")
                /\ \E j \in CallsOf({"verify_recipient"}) : j < i /\ log[j].val[2] = log[i].val[1]
        /\ CallsOf(RawDataFns) = {}

C19_Witness ==
    /\ KnownToken(request)
    /\ result.tag = "Sign"
    /\ \E i \in CallsOf({"verify_total_fee"}) : log[i].val = <<TokenText, FeeText("ETH")>>

\* The request is a token transfer and its contract is not in the table of tokens.
UnknownToken(req) ==
    /\ TokenPattern(req)
    /\ CoinKnown(req)
    /\ ~(req.coin = COIN_ETH /\ req.recipient = USDT_CONTRACT)

\* A call in the log returned an error.
SomeCallFailed ==
    \E i \in DOMAIN log :
        log[i].ev = "ret" /\ log[i].fn \notin ConfirmFns /\ log[i].val[1] = "Err"

\* C20: for a transfer of an unknown token the amount shown is "Unknown token" and
\* the total shown is "Unknown amount", with the fee gas_price * gas_limit in the
\* unit of the coin; the request is not refused for the token being unknown, and
\* with both confirmations accepted it goes on to be hashed and signed.
C20_UnknownTokenTexts ==
    UnknownToken(request) =>
        /\ \A i \in CallsOf({"verify_recipient"}) :
                /\ log[i].val[1][1] = "0x"
                /\ IsHexOf(log[i].val[1][2], ERC20_RECIPIENT)
                /\ log[i].val[2] = <<"Unknown token">>
        /\ \A i \in CallsOf({"verify_total_fee"}) :
                log[i].val = << <<"Unknown amount">>, FeeText(NativeUnit(request)) >>
        /\ CallsOf(RawDataFns) = {}
        /\ result.at # "verify_erc20_transaction"
        /\ (pc = "done" /\ ValidatorPasses(request) /\ Rejections = {}) =>
                /\ {"verify_recipient", "verify_total_fee"} \subseteq Called(ConfirmFns)
                /\ CallsOf({"sighash"}) # {}
                /\ (~SomeCallFailed /\ ~WrongLengthCommitment(request)) => result.tag = "Sign"

C20_Witness ==
    /\ UnknownToken(request)
    /\ request.coin = COIN_ROPSTEN
    /\ result.tag = "Sign"
    /\ \E i \in CallsOf({"verify_recipient"}) : log[i].val[2] = <<"Unknown token">>
    /\ \E i \in CallsOf({"verify_total_fee"}) :
            log[i].val = << <<"Unknown amount">>, FeeText("TETH") >>

\* Eighteen primes below 46340; their product exceeds 256^33, and the square of
\* each fits a 32 bit integer.
Primes ==
    {46153, 46171, 46181, 46183, 46187, 46199,
     46219, 46229, 46237, 46261, 46271, 46273,
     46279, 46301, 46307, 46309, 46327, 46337}

\* The residue modulo p of the number with the big-endian bytes `bytes`.
RECURSIVE Residue(_, _, _)
Residue(bytes, p, acc) ==
    IF bytes = <<>> THEN acc
    ELSE Residue(Tail(bytes), p, (acc * 256 + bytes[1]) % p)

\* A BigUint has no leading zero byte.
IsBigUint(bytes) == bytes = <<>> \/ bytes[1] # 0

\* C21: the fee is exactly gas_price * gas_limit and the total of a standard
\* transfer is exactly value + fee, for gas prices and gas limits of up to 16 bytes
\* and values of up to 32 bytes.  Two numbers below the product of the primes with
\* the same residue modulo each prime are equal, so the residues decide equality
\* of numbers of up to 33 bytes.
C21_ExactFeeAndTotal ==
    am_result # <<"todo">> =>
        LET fee == am_result[2]
            total == am_result[3]
        IN  /\ IsBigUint(fee) /\ Len(fee) <= 32
            /\ IsBigUint(total) /\ Len(total) <= 33
            /\ \A p \in Primes :
                    LET product == (Residue(am_request.gas_price, p, 0)
                                        * Residue(am_request.gas_limit, p, 0)) % p
                    IN  /\ Residue(fee, p, 0) = product
                        /\ Residue(total, p, 0) = (Residue(am_request.value, p, 0) + product) % p

C21_Witness ==
    /\ am_result # <<"todo">>
    /\ am_request.gas_price = Repeat(255, 16)
    /\ am_request.gas_limit = Repeat(255, 16)
    /\ am_request.value = Repeat(255, 32)
    /\ Len(am_result[2]) = 32
    /\ Len(am_result[3]) = 33

\* C22: the payload of a Sign response is the signature returned by
\* secp256k1_sign followed by the recovery id returned by the same call, 65 bytes
\* for the 64 byte signature.
C22_SignatureThenRecid ==
    result.tag = "Sign" =>
        /\ log # <<>>
        /\ log[Len(log)].ev = "ret"
        /\ log[Len(log)].fn = "secp256k1_sign"
        /\ log[Len(log)].val[1] = "Ok"
        /\ LET sign_result == log[Len(log)].val[2]
           IN  /\ Len(sign_result.signature) = 64
               /\ Len(result.signature) = 65
               /\ SubSeq(result.signature, 1, 64) = sign_result.signature
               /\ result.signature[65] = sign_result.recid

C22_Witness ==
    /\ result.tag = "Sign"
    /\ result.signature = Repeat(34, 64) \o <<1>>

FailedAt(i, fn) == log[i].ev = "ret" /\ log[i].fn = fn /\ log[i].val[1] = "Err"

\* C23: a failure of sighash, of secp256k1_nonce_commit or of the host nonce round
\* trip is the last thing process does: nothing is called after it and process
\* returns an error.  After a sighash failure no keystore or host call was made;
\* after a secp256k1_nonce_commit failure no host round trip and no
\* secp256k1_sign; after a host failure no secp256k1_sign.
C23_FailureShortCircuits ==
    \A i \in DOMAIN log :
        /\ FailedAt(i, "sighash") =>
                /\ i = Len(log) /\ pc = "done"
                /\ result.tag = "InvalidInput" /\ result.signature = <<>>
                /\ CallsOf(KeystoreFns \cup HostFns) = {}
        /\ FailedAt(i, "secp256k1_nonce_commit") =>
                /\ i = Len(log) /\ pc = "done"
                /\ result.tag \notin {"none", "Sign"} /\ result.signature = <<>>
                /\ CallsOf(HostFns \cup {"secp256k1_sign"}) = {}
        /\ FailedAt(i, "antiklepto_get_host_nonce") =>
                /\ i = Len(log) /\ pc = "done"
                /\ result.tag \notin {"none", "Sign"} /\ result.signature = <<>>
                /\ CallsOf({"secp256k1_sign"}) = {}

C23_Witness ==
    /\ pc = "done"
    /\ log # <<>>
    /\ FailedAt(Len(log), "antiklepto_get_host_nonce")
    /\ CallsOf({"secp256k1_nonce_commit"}) # {}
    /\ CallsOf({"secp256k1_sign"}) = {}

\* Every confirmation of the request was requested and accepted.
AllAccepted ==
    \E i \in DOMAIN log :
        log[i].ev = "ret" /\ log[i].fn = "verify_total_fee" /\ log[i].val = TRUE

CountOf(fns) == Cardinality(CallsOf(fns))

\* C24: when every confirmation was accepted, there were one generic confirmation
\* if the keypath is unusual plus three if the request is a standard transfer with
\* data, then one recipient/amount confirmation and one total/fee confirmation.
\* A token transfer is never shown the raw data confirmations.
C24_ConfirmationCount ==
    /\ TokenPattern(request) => CallsOf(RawDataFns) = {}
    /\ AllAccepted =>
        LET first == CHOOSE i \in CallsOf({"verify_recipient"}) : TRUE
        IN  /\ Rejections = {}
            /\ CountOf({"warn_unusual_keypath"}) = (IF KeypathUnusual(request) THEN 1 ELSE 0)
            /\ CountOf(RawDataFns) =
                    (IF ~TokenPattern(request) /\ request.data # <<>> THEN 3 ELSE 0)
            /\ CountOf({"verify_recipient"}) = 1
            /\ CountOf({"verify_total_fee"}) = 1
            /\ \A i \in CallsOf({"warn_unusual_keypath"} \cup RawDataFns) : i < first
            /\ log[first + 2].ev = "call" /\ log[first + 2].fn = "verify_total_fee"

C24_Witness ==
    /\ AllAccepted
    /\ KeypathUnusual(request)
    /\ request.data = ERC20_DATA
    /\ request.value # <<>>
    /\ CountOf({"warn_unusual_keypath"} \cup RawDataFns) = 4

\* C25: in a token transfer the address shown with the amount is the recipient of
\* bytes 16..36 of the data and not the recipient field of the request; the
\* recipient field decides whether the token is known, and it is the recipient
\* that is hashed.
C25_TokenRecipientShown ==
    TokenPattern(request) =>
        /\ \A i \in CallsOf({"verify_recipient"}) :
                /\ log[i].val[1][1] = "0x"
                /\ IsHexOf(log[i].val[1][2], SubSeq(request.data, 17, 36))
                /\ ~IsHexOf(log[i].val[1][2], request.recipient)
                /\ log[i].val[2] = TokenText <=>
                        (request.coin = COIN_ETH /\ request.recipient = USDT_CONTRACT)
        /\ Called(ConfirmFns) \subseteq
                {"warn_unusual_keypath", "verify_recipient", "verify_total_fee"}
        /\ \A i \in CallsOf({"sighash"}) :
                /\ log[i].val.recipient = request.recipient
                /\ log[i].val.data = request.data

C25_Witness ==
    /\ TokenPattern(request)
    /\ request.recipient = USDT_CONTRACT
    /\ request.coin = COIN_ETH
    /\ CallsOf({"sighash"}) # {}
    /\ \E i \in CallsOf({"verify_recipient"}) : IsHexOf(log[i].val[1][2], ERC20_RECIPIENT)

AwaitedFns == ConfirmFns \cup HostFns

\* process is suspended at an await, with the call it awaits the last thing it did.
Suspended ==
    /\ pc \in {"await_" \o fn : fn \in AwaitedFns}
    /\ log # <<>>
    /\ log[Len(log)].ev = "call"
    /\ pc = "await_" \o log[Len(log)].fn

\* The step resumes process with the answer to the call it awaits.
Resumed ==
    /\ Len(log') > Len(log)
    /\ SubSeq(log', 1, Len(log)) = log
    /\ log'[Len(log) + 1].ev = "ret"
    /\ log'[Len(log) + 1].fn = log[Len(log)].fn

\* C26: with every step run and every confirmation and host nonce round trip
\* answered, process terminates, with one outcome among a signature,
\* InvalidInput, UserAbort, the keystore's Generic and the fault of the host, that
\* does not change afterwards; an outcome other than the first four is the fault
\* the host nonce round trip returned last.  No collaborator is called twice (no
\* loop, no retry), and while a confirmation or the host nonce round trip is
\* unanswered process is suspended and moves only with the answer.
C26_Terminates ==
    /\ <>(pc = "done")
    /\ [](pc = "done" <=> result.tag # "none")
    /\ [](pc = "done" => result.tag \in Outcomes)
    /\ [](result.tag \notin {"none", "Sign", "InvalidInput", "UserAbort", KeystoreError} =>
            log[Len(log)] = Ret("antiklepto_get_host_nonce", <<"Err", result.tag>>))
    /\ [](result.tag = "Sign" <=> result.signature # <<>>)
    /\ [](\A fn \in AwaitedFns \cup KeystoreFns \cup {"sighash"} : CountOf({fn}) <= 1)
    /\ [](pc \in {"await_" \o fn : fn \in AwaitedFns} => Suspended)
    /\ [][Suspended => Resumed]_vars
    /\ [][pc = "done" => UNCHANGED vars]_vars

C26_Witness ==
    /\ pc = "done"
    /\ result.tag = "Sign"
    /\ Called(AwaitedFns) = AwaitedFns
    /\ \A fn \in AwaitedFns :
            \E i \in DOMAIN log : log[i].ev = "ret" /\ log[i].fn = fn

====
